---- MODULE Spec2Model ----
(***************************************************************************)
(* The entry point of end-of-chapter-projects/empty-game (src/main.rs).    *)
(*                                                                         *)
(* main is one straight-line startup sequence.  Every statement of main,   *)
(* and every call inside the builder expression of lines 31-41 (in Rust's  *)
(* evaluation order: receiver first, then arguments, then the call), is    *)
(* one action; pc is main's position.  The locals of main are variables    *)
(* of the same name.  A local is a slot: uninitialised, live (holding a    *)
(* value) or moved-from, as Rust's ownership tracks it.                    *)
(*                                                                         *)
(* What the engine returns is input: application_root_dir, with_bundle     *)
(* and Application::new each return Ok or one of a few errors, the         *)
(* engine's DisplayConfig::default() is one of a few values, and run       *)
(* executes some frames and may return.                                    *)
(*                                                                         *)
(* Values: a path is the sequence of its components; an Option is a        *)
(* sequence of length 0 or 1; a colour channel is counted in hundredths    *)
(* (0.95 is 95, 1.0 is 100).                                               *)
(***************************************************************************)
EXTENDS Integers, Sequences, FiniteSets, TLC

VARIABLES
    pc,              \* position in main
    logger,          \* TRUE once amethyst::start_logger has been called
    app_root,        \* local app_root (line 20)
    assets_dir,      \* local assets_dir (line 21)
    display_config,  \* local display_config (lines 24-28)
    engine_default,  \* what DisplayConfig's Default::default() returned (line 27)
    builder,         \* temporary: the GameDataBuilder of line 31
    bundle,          \* temporary: the RenderingBundle of line 33
    window,          \* temporary: the RenderToWindow plugin of lines 36-37
    shaded,          \* temporary: the RenderShaded3D plugin of line 40
    game_data,       \* local game_data (line 31)
    game,            \* local game (line 44)
    run_calls,       \* number of calls of game.run (line 45)
    run_returned,    \* TRUE once game.run has returned
    frames,          \* frames the engine loop has executed inside run
    failure,         \* the Err value a callee returned to main, as returned
    result,          \* main's return value
    exit_code,       \* the process's exit status, once main has returned
    trace            \* the steps executed so far, in order

vars == << pc, logger, app_root, assets_dir, display_config, engine_default,
           builder, bundle, window, shaded, game_data, game, run_calls,
           run_returned, frames, failure, result, exit_code, trace >>

----------------------------------------------------------------------------
(* Bounds and literals *)

\* Frames the engine loop may execute before the model stops counting.
MaxFrames == 3

\* Line 26: dimensions: Some((1024, 768))
Width == 1024
Height == 768

\* Line 37: .with_clear([0.95, 0.95, 0.95, 1.0]), in hundredths
ClearRGB == 95
ClearAlpha == 100

\* Line 25: title: "Cubefield".to_string()
Title == "Cubefield"

\* Line 21: app_root.join("assets")
AssetsSubpath == <<"assets">>

\* Mutant: the channels given in ARGB order.
ClearColor_argb == << ClearAlpha, ClearRGB, ClearRGB, ClearRGB >>

\* Line 37: the array literal, in source order
ClearColor == << ClearRGB, ClearRGB, ClearRGB, ClearAlpha >>

----------------------------------------------------------------------------
(* Slots: a local or temporary of main *)

Uninit == [st |-> "uninit", v |-> <<>>]
Live(x) == [st |-> "live", v |-> <<x>>]
Moved == [st |-> "moved", v |-> <<>>]
IsLive(s) == s.st = "live"
Val(s) == s.v[1]

----------------------------------------------------------------------------
(* Inputs: what the engine can hand back *)

\* Directories application_root_dir may resolve to.
Roots == { <<"/">>, <<"/", "opt", "cubefield">>, <<"/", "home", "u", "game">> }

IoError(m) == [ty |-> "io", msg |-> m, wraps |-> <<>>]
AmethystError(m) == [ty |-> "amethyst", msg |-> m, wraps |-> <<>>]

\* application_root_dir returns io errors; the builders return amethyst errors.
RootErrors == { IoError("no application root"), IoError("permission denied") }
BundleErrors == { AmethystError("bundle build failed") }
ApplicationErrors == { AmethystError("no window"), AmethystError("no assets") }

\* The values DisplayConfig::default() may have: the engine's choice.
EngineDefaults ==
    { [title |-> t, dimensions |-> d, rest |-> r] :
        t \in {"Amethyst game", ""},
        d \in { <<>>, << <<800, 600>> >> },
        r \in {"windowed", "fullscreen"} }

----------------------------------------------------------------------------
(* Pure parts of main *)

\* Mutant: the subpath replaces the root instead of extending it.
Join_replace(base, rel) == rel

\* PathBuf::join with a relative path: the components are appended.
Join(base, rel) == base \o rel

\* Mutant: width and height exchanged.
DisplayConfigLiteral_swapped(default) ==
    [default EXCEPT !.title = Title, !.dimensions = << <<Height, Width>> >>]

\* Lines 24-28: the struct literal with functional update from the default.
DisplayConfigLiteral(default) ==
    [default EXCEPT !.title = Title, !.dimensions = << <<Width, Height>> >>]

\* Line 36: RenderToWindow::from_config(display_config): no clear colour yet.
FromConfig(config) ==
    [kind |-> "RenderToWindow", config |-> <<config>>, clear |-> <<>>,
     settings |-> "from_config"]

\* Line 37: .with_clear(color) sets the clear colour and nothing else.
WithClear(plugin, color) == [plugin EXCEPT !.clear = <<color>>]

\* Line 40: RenderShaded3D::default()
Shaded3DDefault ==
    [kind |-> "RenderShaded3D", config |-> <<>>, clear |-> <<>>,
     settings |-> "default"]

\* Mutant: the plugin is put in front of the ones already there.
WithPlugin_prepend(b, p) == <<p>> \o b

\* Lines 35 and 40: .with_plugin(p) appends p to the bundle's plugins.
WithPlugin(b, p) == Append(b, p)

\* Lines 32-41: on success with_bundle adds the bundle to the builder.
WithBundle(gd, b) == [gd EXCEPT !.bundles = Append(@, b)]

\* Mutant: the error is replaced by a fresh one (as map_err would).
From_lossy(e) == [ty |-> "amethyst", msg |-> "startup failed", wraps |-> <<>>]

\* The conversion `?` applies to an error before returning it
\* (From::from into main's error type, amethyst::Error): an amethyst::Error
\* is returned as it is, an io::Error is wrapped in a new amethyst::Error.
From(e) ==
    IF e.ty = "amethyst" THEN e
    ELSE [ty |-> "amethyst", msg |-> e.msg, wraps |-> <<e>>]

\* Returning from main: Ok(()) is exit status 0, Err(_) is exit status 1.
Report(r) == IF r.st = "Ok" THEN 0 ELSE 1

NoResult == [st |-> "none", err |-> <<>>]
Ok == [st |-> "Ok", err |-> <<>>]
Err(e) == [st |-> "Err", err |-> <<e>>]

----------------------------------------------------------------------------
Init ==
    /\ pc = "start_logger"
    /\ logger = FALSE
    /\ app_root = Uninit
    /\ assets_dir = Uninit
    /\ display_config = Uninit
    /\ engine_default = <<>>
    /\ builder = Uninit
    /\ bundle = Uninit
    /\ window = Uninit
    /\ shaded = Uninit
    /\ game_data = Uninit
    /\ game = Uninit
    /\ run_calls = 0
    /\ run_returned = FALSE
    /\ frames = 0
    /\ failure = <<>>
    /\ result = NoResult
    /\ exit_code = -1
    /\ trace = <<>>

\* `?` on Err(e) at step s: main returns Err(From::from(e)) at once.
Fail(s, e) ==
    /\ failure' = << [step |-> s, err |-> e] >>
    /\ result' = Err(From(e))
    /\ exit_code' = Report(Err(From(e)))
    /\ pc' = "done"

Continue(next) ==
    /\ pc' = next
    /\ UNCHANGED << failure, result, exit_code >>

\* Line 17
start_logger ==
    /\ pc = "start_logger"
    /\ logger' = TRUE
    /\ trace' = Append(trace, "start_logger")
    /\ Continue("application_root_dir")
    /\ UNCHANGED << app_root, assets_dir, display_config, engine_default,
                    builder, bundle, window, shaded, game_data, game,
                    run_calls, run_returned, frames >>

\* Mutant: the error is swallowed and startup goes on with an empty root
\* (as unwrap_or_default would).
application_root_dir_swallowed ==
    /\ pc = "application_root_dir"
    /\ trace' = Append(trace, "application_root_dir")
    /\ \/ \E p \in Roots :
            /\ app_root' = Live(p)
            /\ Continue("join")
       \/ \E e \in RootErrors :
            /\ failure' = << [step |-> "application_root_dir", err |-> e] >>
            /\ app_root' = Live(<<>>)
            /\ pc' = "join"
            /\ UNCHANGED << result, exit_code >>
    /\ UNCHANGED << logger, assets_dir, display_config, engine_default,
                    builder, bundle, window, shaded, game_data, game,
                    run_calls, run_returned, frames >>

\* Mutant: a failed call is tried again.
application_root_dir_retry ==
    /\ pc = "application_root_dir"
    /\ trace' = Append(trace, "application_root_dir")
    /\ \/ \E p \in Roots :
            /\ app_root' = Live(p)
            /\ Continue("join")
       \/ \E e \in RootErrors :
            /\ failure' = << [step |-> "application_root_dir", err |-> e] >>
            /\ pc' = "application_root_dir"
            /\ UNCHANGED << app_root, result, exit_code >>
    /\ UNCHANGED << logger, assets_dir, display_config, engine_default,
                    builder, bundle, window, shaded, game_data, game,
                    run_calls, run_returned, frames >>

\* Line 20
application_root_dir ==
    /\ pc = "application_root_dir"
    /\ trace' = Append(trace, "application_root_dir")
    /\ \/ \E p \in Roots :
            /\ app_root' = Live(p)
            /\ Continue("join")
       \/ \E e \in RootErrors :
            /\ Fail("application_root_dir", e)
            /\ UNCHANGED app_root
    /\ UNCHANGED << logger, assets_dir, display_config, engine_default,
                    builder, bundle, window, shaded, game_data, game,
                    run_calls, run_returned, frames >>

\* Line 21
join ==
    /\ pc = "join"
    /\ IsLive(app_root)
    /\ assets_dir' = Live(Join(Val(app_root), AssetsSubpath))
    /\ trace' = Append(trace, "join")
    /\ Continue("display_config")
    /\ UNCHANGED << logger, app_root, display_config, engine_default,
                    builder, bundle, window, shaded, game_data, game,
                    run_calls, run_returned, frames >>

\* Lines 24-28
DisplayConfig ==
    /\ pc = "display_config"
    /\ \E d \in EngineDefaults :
            /\ engine_default' = <<d>>
            /\ display_config' = Live(DisplayConfigLiteral(d))
    /\ trace' = Append(trace, "display_config")
    /\ Continue("builder_default")
    /\ UNCHANGED << logger, app_root, assets_dir, builder, bundle, window,
                    shaded, game_data, game, run_calls, run_returned,
                    frames >>

\* Line 31
GameDataBuilder_default ==
    /\ pc = "builder_default"
    /\ builder' = Live([bundles |-> <<>>, systems |-> <<>>])
    /\ trace' = Append(trace, "builder_default")
    /\ Continue("bundle_new")
    /\ UNCHANGED << logger, app_root, assets_dir, display_config,
                    engine_default, bundle, window, shaded, game_data, game,
                    run_calls, run_returned, frames >>

\* Mutant: the configuration is changed after its construction, before the
\* plugin takes it.
RenderingBundle_new_mutating ==
    /\ pc = "bundle_new"
    /\ bundle' = Live(<<>>)
    /\ display_config' = Live([Val(display_config) EXCEPT !.dimensions = <<>>])
    /\ trace' = Append(trace, "bundle_new")
    /\ Continue("from_config")
    /\ UNCHANGED << logger, app_root, assets_dir,
                    engine_default, builder, window, shaded, game_data, game,
                    run_calls, run_returned, frames >>

\* Line 33
RenderingBundle_new ==
    /\ pc = "bundle_new"
    /\ bundle' = Live(<<>>)
    /\ trace' = Append(trace, "bundle_new")
    /\ Continue("from_config")
    /\ UNCHANGED << logger, app_root, assets_dir, display_config,
                    engine_default, builder, window, shaded, game_data, game,
                    run_calls, run_returned, frames >>

\* Line 36: display_config is moved into the plugin.
RenderToWindow_from_config ==
    /\ pc = "from_config"
    /\ IsLive(display_config)
    /\ window' = Live(FromConfig(Val(display_config)))
    /\ display_config' = Moved
    /\ trace' = Append(trace, "from_config")
    /\ Continue("with_clear")
    /\ UNCHANGED << logger, app_root, assets_dir, engine_default, builder,
                    bundle, shaded, game_data, game, run_calls, run_returned,
                    frames >>

\* Line 37
with_clear ==
    /\ pc = "with_clear"
    /\ IsLive(window)
    /\ window' = Live(WithClear(Val(window), ClearColor))
    /\ trace' = Append(trace, "with_clear")
    /\ Continue("with_plugin_window")
    /\ UNCHANGED << logger, app_root, assets_dir, display_config,
                    engine_default, builder, bundle, shaded, game_data, game,
                    run_calls, run_returned, frames >>

\* Lines 35-38: the window plugin is moved into the bundle.
with_plugin_window ==
    /\ pc = "with_plugin_window"
    /\ IsLive(bundle) /\ IsLive(window)
    /\ bundle' = Live(WithPlugin(Val(bundle), Val(window)))
    /\ window' = Moved
    /\ trace' = Append(trace, "with_plugin_window")
    /\ Continue("shaded_default")
    /\ UNCHANGED << logger, app_root, assets_dir, display_config,
                    engine_default, builder, shaded, game_data, game,
                    run_calls, run_returned, frames >>

\* Line 40, the argument
RenderShaded3D_default ==
    /\ pc = "shaded_default"
    /\ shaded' = Live(Shaded3DDefault)
    /\ trace' = Append(trace, "shaded_default")
    /\ Continue("with_plugin_shaded")
    /\ UNCHANGED << logger, app_root, assets_dir, display_config,
                    engine_default, builder, bundle, window, game_data, game,
                    run_calls, run_returned, frames >>

\* Line 40, the call: the shaded plugin is moved into the bundle.
with_plugin_shaded ==
    /\ pc = "with_plugin_shaded"
    /\ IsLive(bundle) /\ IsLive(shaded)
    /\ bundle' = Live(WithPlugin(Val(bundle), Val(shaded)))
    /\ shaded' = Moved
    /\ trace' = Append(trace, "with_plugin_shaded")
    /\ Continue("with_bundle")
    /\ UNCHANGED << logger, app_root, assets_dir, display_config,
                    engine_default, builder, window, game_data, game,
                    run_calls, run_returned, frames >>

\* Lines 31-41: with_bundle consumes the builder and the bundle; `?`.
with_bundle ==
    /\ pc = "with_bundle"
    /\ IsLive(builder) /\ IsLive(bundle)
    /\ builder' = Moved
    /\ bundle' = Moved
    /\ trace' = Append(trace, "with_bundle")
    /\ \/ /\ game_data' = Live(WithBundle(Val(builder), Val(bundle)))
          /\ Continue("application_new")
       \/ \E e \in BundleErrors :
            /\ Fail("with_bundle", e)
            /\ UNCHANGED game_data
    /\ UNCHANGED << logger, app_root, assets_dir, display_config,
                    engine_default, window, shaded, game, run_calls,
                    run_returned, frames >>

\* Line 44: assets_dir, a new GameState and game_data are moved in; `?`.
Application_new ==
    /\ pc = "application_new"
    /\ IsLive(assets_dir) /\ IsLive(game_data)
    /\ assets_dir' = Moved
    /\ game_data' = Moved
    /\ trace' = Append(trace, "application_new")
    /\ \/ /\ game' = Live([assets |-> Val(assets_dir), state |-> "GameState",
                           data |-> Val(game_data)])
          /\ Continue("run")
       \/ \E e \in ApplicationErrors :
            /\ Fail("application_new", e)
            /\ UNCHANGED game
    /\ UNCHANGED << logger, app_root, display_config, engine_default,
                    builder, bundle, window, shaded, run_calls, run_returned,
                    frames >>

\* Mutant: main goes on to Ok(()) without calling run.
run_skipped ==
    /\ pc = "run"
    /\ IsLive(game)
    /\ trace' = Append(trace, "run")
    /\ Continue("return_ok")
    /\ UNCHANGED << logger, app_root, assets_dir, display_config,
                    engine_default, builder, bundle, window, shaded,
                    game_data, game, run_calls, run_returned, frames >>

\* Line 45: the call of game.run().
run ==
    /\ pc = "run"
    /\ IsLive(game)
    /\ run_calls' = run_calls + 1
    /\ trace' = Append(trace, "run")
    /\ Continue("running")
    /\ UNCHANGED << logger, app_root, assets_dir, display_config,
                    engine_default, builder, bundle, window, shaded,
                    game_data, game, run_returned, frames >>

\* Line 45: inside run the engine executes a frame.
run_frame ==
    /\ pc = "running"
    /\ frames < MaxFrames
    /\ frames' = frames + 1
    /\ UNCHANGED << pc, logger, app_root, assets_dir, display_config,
                    engine_default, builder, bundle, window, shaded,
                    game_data, game, run_calls, run_returned, failure,
                    result, exit_code, trace >>

\* Line 45: game.run() returns.
run_return ==
    /\ pc = "running"
    /\ run_returned' = TRUE
    /\ Continue("return_ok")
    /\ UNCHANGED << logger, app_root, assets_dir, display_config,
                    engine_default, builder, bundle, window, shaded,
                    game_data, game, run_calls, frames, trace >>

\* Line 47
return_Ok ==
    /\ pc = "return_ok"
    /\ result' = Ok
    /\ exit_code' = Report(Ok)
    /\ pc' = "done"
    /\ UNCHANGED << logger, app_root, assets_dir, display_config,
                    engine_default, builder, bundle, window, shaded,
                    game_data, game, run_calls, run_returned, frames,
                    failure, trace >>

Next ==
    \/ start_logger
    \/ application_root_dir
    \/ join
    \/ DisplayConfig
    \/ GameDataBuilder_default
    \/ RenderingBundle_new
    \/ RenderToWindow_from_config
    \/ with_clear
    \/ with_plugin_window
    \/ RenderShaded3D_default
    \/ with_plugin_shaded
    \/ with_bundle
    \/ Application_new
    \/ run
    \/ run_frame
    \/ run_return
    \/ return_Ok

Spec == Init /\ [][Next]_vars

----------------------------------------------------------------------------
(* Vocabulary of the properties *)

\* The statements of main in source order.
Steps ==
    << "start_logger", "application_root_dir", "join", "display_config",
       "builder_default", "bundle_new", "from_config", "with_clear",
       "with_plugin_window", "shaded_default", "with_plugin_shaded",
       "with_bundle", "application_new", "run" >>

Executed(s) == \E i \in 1..Len(trace) : trace[i] = s

Times(s) == Cardinality({ i \in 1..Len(trace) : trace[i] = s })

LastStep == trace[Len(trace)]

Failed == failure # <<>>

FailedAt(s) == Failed /\ failure[1].step = s

\* Every RenderingBundle that exists: the temporary, the one inside
\* game_data, the one inside game.
BundlesAlive ==
    (IF IsLive(bundle) THEN { Val(bundle) } ELSE {})
    \cup (IF IsLive(game_data)
          THEN { Val(game_data).bundles[i] :
                   i \in 1..Len(Val(game_data).bundles) }
          ELSE {})
    \cup (IF IsLive(game)
          THEN { Val(game).data.bundles[i] :
                   i \in 1..Len(Val(game).data.bundles) }
          ELSE {})

\* Every RenderToWindow plugin that exists, wherever it is held.
WindowPlugins ==
    (IF IsLive(window) THEN { Val(window) } ELSE {})
    \cup { p \in UNION { { b[i] : i \in 1..Len(b) } : b \in BundlesAlive } :
             p.kind = "RenderToWindow" }

----------------------------------------------------------------------------
(* C1 *)

\* C1, as stated: when a startup step fails, main's result is exactly the
\* error that step returned, no later step runs, run is never called and the
\* exit status is not 0.
C1_ErrorReturnedUnchanged ==
    Failed =>
        /\ pc = "done"
        /\ result = Err(failure[1].err)
        /\ LastStep = failure[1].step
        /\ run_calls = 0
        /\ exit_code # 0 /\ exit_code # -1

\* C1, amended: when a startup step fails, main returns at once with Err:
\* the error of with_bundle or Application::new as it was returned, the
\* io::Error of application_root_dir wrapped in an amethyst::Error with the
\* same message; no later step runs, run is never called, and the exit
\* status is 1.
C1_FirstFailurePropagates ==
    Failed =>
        LET f == failure[1] IN
        /\ pc = "done"
        /\ result.st = "Err"
        /\ f.step \in {"application_root_dir", "with_bundle", "application_new"}
        /\ f.step \in {"with_bundle", "application_new"}
              => result.err = << f.err >>
        /\ f.step = "application_root_dir"
              => /\ result.err[1] # f.err
                 /\ result.err =
                      << [ty |-> "amethyst", msg |-> f.err.msg,
                          wraps |-> << f.err >>] >>
        /\ LastStep = f.step
        /\ Times(f.step) = 1
        /\ run_calls = 0 /\ ~run_returned /\ frames = 0
        /\ exit_code = 1

C1_Witness ==
    /\ FailedAt("application_root_dir")
    /\ pc = "done"
    /\ result.st = "Err"

\* The other two failing steps also happen.
C1_Witness_with_bundle == FailedAt("with_bundle") /\ pc = "done"
C1_Witness_application_new == FailedAt("application_new") /\ pc = "done"

----------------------------------------------------------------------------
(* C2 *)

\* C2: when application_root_dir fails, main returns an error (exit status
\* not 0), and no display configuration, plugin, bundle, game data or
\* Application is ever constructed.
C2_RootFailureSurfaced ==
    FailedAt("application_root_dir") =>
        /\ pc = "done"
        /\ result.st = "Err"
        /\ exit_code = 1
        /\ app_root = Uninit /\ assets_dir = Uninit
        /\ display_config = Uninit /\ engine_default = <<>>
        /\ window = Uninit /\ shaded = Uninit
        /\ bundle = Uninit /\ builder = Uninit
        /\ game_data = Uninit /\ game = Uninit
        /\ run_calls = 0

C2_Witness ==
    /\ FailedAt("application_root_dir")
    /\ result.st = "Err"
    /\ game = Uninit

----------------------------------------------------------------------------
(* C3 *)

\* C3: when the three fallible steps have succeeded the Application exists;
\* run is called at most once, and exactly once from the call on; main has
\* returned Ok(()) only after that one call of run returned, and a finished
\* main returned Ok(()) exactly if run returned.
C3_SuccessRunsOnce ==
    /\ run_calls <= 1
    /\ (Executed("application_new") /\ ~Failed)
          => /\ IsLive(game)
             /\ Val(game).state = "GameState"
             /\ (pc # "run" => run_calls = 1)
    /\ result.st = "Ok"
          => /\ run_calls = 1 /\ run_returned
             /\ IsLive(game) /\ ~Failed /\ exit_code = 0
    /\ run_returned => run_calls = 1 /\ pc \in {"return_ok", "done"}
    /\ pc = "done" => (result.st = "Ok" <=> run_returned)

C3_Witness ==
    /\ pc = "done"
    /\ result.st = "Ok"
    /\ run_calls = 1
    /\ frames = 2

----------------------------------------------------------------------------
(* C4 *)

\* C4: the display configuration inside the window renderer plugin has the
\* title "Cubefield" and the dimensions Some((1024, 768)), and the rest of
\* it is the engine's default.
C4_DisplayConfigValues ==
    \A p \in WindowPlugins :
        /\ Len(p.config) = 1
        /\ p.config[1].title = "Cubefield"
        /\ p.config[1].dimensions = << <<1024, 768>> >>
        /\ p.config[1].rest = engine_default[1].rest

C4_Witness ==
    /\ IsLive(window)
    /\ engine_default[1].title # "Cubefield"
    /\ engine_default[1].dimensions # << <<1024, 768>> >>
    /\ Val(window).config[1].title = "Cubefield"

----------------------------------------------------------------------------
(* C5 *)

\* C5: once with_clear has run, the clear colour of the window renderer
\* plugin is (0.95, 0.95, 0.95, 1.0) as red, green, blue, alpha, each
\* channel between 0 and 1 (in hundredths: 95, 95, 95, 100 within 0..100).
C5_ClearColorValues ==
    \A p \in WindowPlugins :
        Executed("with_clear") =>
            /\ p.clear = << <<95, 95, 95, 100>> >>
            /\ \A i \in 1..4 : p.clear[1][i] >= 0 /\ p.clear[1][i] <= 100
            /\ p.clear[1][4] = 100

C5_Witness ==
    /\ IsLive(window)
    /\ Executed("with_clear")
    /\ Val(window).clear # <<>>

----------------------------------------------------------------------------
(* C6 *)

\* C6: assets_dir is the application root followed by "assets"; it is
\* computed by one join, stays as computed until Application::new takes it,
\* and the path the Application got is that path.
C6_AssetsDir ==
    /\ Times("join") <= 1
    /\ (assets_dir.st = "uninit") <=> ~Executed("join")
    /\ (assets_dir.st = "moved") <=> Executed("application_new")
    /\ IsLive(assets_dir)
          => /\ IsLive(app_root)
             /\ Val(assets_dir) = Val(app_root) \o <<"assets">>
    /\ IsLive(game)
          => /\ IsLive(app_root)
             /\ Val(game).assets = Val(app_root) \o <<"assets">>
             /\ Len(Val(game).assets) = Len(Val(app_root)) + 1

C6_Witness ==
    /\ IsLive(game)
    /\ Len(Val(app_root)) = 3
    /\ Val(game).assets = <<"/", "opt", "cubefield", "assets">>

----------------------------------------------------------------------------
(* C7 *)

----------------------------------------------------------------------------
(* C8 *)

\* C8: display_config goes from uninitialised to live to moved and never
\* back; while it is live no step changes it; the step that moves it hands
\* the value, as constructed, to the window renderer plugin; once moved it
\* stays moved.
C8_ConfigStep ==
    /\ display_config = Uninit
          => \/ display_config' = Uninit
             \/ /\ IsLive(display_config')
                /\ pc = "display_config"
    /\ IsLive(display_config)
          => \/ display_config' = display_config
             \/ /\ display_config' = Moved
                /\ pc = "from_config"
                /\ IsLive(window')
                /\ Val(window').config = display_config.v
    /\ display_config = Moved => display_config' = Moved

\* C8: every step of main is such a step: the configuration is constructed
\* once, consumed once and never changed in between or used afterwards.
C8_ConfigConstructedOnceConsumedOnce == [][C8_ConfigStep]_vars

C8_Witness ==
    /\ display_config = Moved
    /\ IsLive(window)
    /\ Times("display_config") = 1
    /\ Times("from_config") = 1

----------------------------------------------------------------------------
(* C10 *)

\* C10: the steps executed are always an initial part of the source order
\* (so each happens at most once, in that order, with no retry); the logger
\* is started before anything else and is started whenever a step failed; a
\* failed step is the last step executed.
C10_FixedOrder ==
    /\ Len(trace) <= Len(Steps)
    /\ \A i \in 1..Len(trace) : trace[i] = Steps[i]
    /\ Len(trace) >= 1 => logger
    /\ Failed => /\ logger
                 /\ pc = "done"
                 /\ LastStep = failure[1].step
                 /\ trace[1] = "start_logger"
    /\ pc # "done" => ~Failed

C10_Witness ==
    /\ FailedAt("with_bundle")
    /\ logger
    /\ Len(trace) = 12

\* A complete run executes all the steps.
C10_Witness_full == pc = "done" /\ ~Failed /\ trace = Steps

====
